---- MODULE Spec2Model ----
(***************************************************************************)
(* Model of src/email_validator.py: EmailValidator.process_email_list,     *)
(* EmailValidator.verify_email, EmailValidator.get_mx_record,              *)
(* ExcelHandler.read_emails_from_excel / write_results_to_excel and main.  *)
(*                                                                         *)
(* The DNS resolver, the SMTP server and the spreadsheet file are the      *)
(* environment: every reply they can give is a nondeterministic input of   *)
(* the action that talks to them.                                          *)
(***************************************************************************)
EXTENDS Integers, Sequences, FiniteSets, TLC

VARIABLES
    email_list,        \* process_email_list's argument
    i,                 \* the loop's enumerate index (0 before the first item)
    pc,                \* position inside process_email_list / verify_email
    results,           \* the list process_email_list builds and returns
    ret,               \* what verify_email returned for item i
    normalized_email,  \* verify_email local
    mx_record,         \* verify_email local
    rcpt,              \* (code, message) of server.rcpt
    pending,           \* return value or exception travelling out of the with block
    conns,             \* every SMTP object built so far, with its socket state
    calls,             \* per item: invocations of validate_email, get_mx_record, smtplib.SMTP
    log,               \* records written through logging
    console,           \* lines written by print
    sleeps,            \* per item: time.sleep calls made after it
    delay,             \* the duration of the time.sleep in progress
    mpc,               \* position inside main ("none": process_email_list called directly)
    df,                \* main's DataFrame: the email column, one cell per row
    df_cols,           \* the columns main added to df
    emails,            \* main's list read from the spreadsheet
    output_file        \* the spreadsheet main writes

vars == <<email_list, i, pc, results, ret, normalized_email, mx_record, rcpt,
          pending, conns, calls, log, console, sleeps, delay, mpc, df, df_cols, emails, output_file>>

procVars == <<email_list, i, pc, results, ret, normalized_email, mx_record, rcpt,
              pending, conns, calls, log, console, sleeps, delay>>

mainVars == <<mpc, df, df_cols, emails, output_file>>

----------------------------------------------------------------------------
(* Bounds of the model *)

MaxLen == 3
MaxRows == 2

(* Program constants *)

min_delay == 1
max_delay == 5
RCPT_OK == 250

----------------------------------------------------------------------------
(* Values *)

None == [t |-> "none", v |-> "None"]

\* str values
MixedCaseAddr == [t |-> "str", v |-> "User@Example.COM"]
MalformedAddr == [t |-> "str", v |-> "not-an-email"]
\* a non-str value
IntItem       == [t |-> "int", v |-> "12345"]
\* a missing spreadsheet cell
NaN           == [t |-> "nan", v |-> "nan"]

Items == {MixedCaseAddr, MalformedAddr, IntItem}
Cells == {MixedCaseAddr, MalformedAddr, IntItem, NaN}

SeqsUpTo(S, n) == UNION {[1..k -> S] : k \in 0..n}

\* the type test left out: every item is taken for a str
IsStrAlways(x) == TRUE

\* isinstance(email, str)
IsStr(x) == x.t = "str"

\* an exception object: its class and str(e)
Exc(cls, text) == [cls |-> cls, text |-> text]

\* a message: the f-string's literal prefix and its interpolated fields in order
Msg(prefix, parts) == [prefix |-> prefix, parts |-> parts]

\* f"{code}" of a three-digit reply code
Digit == <<"0", "1", "2", "3", "4", "5", "6", "7", "8", "9">>
DecimalStr(n) == Digit[(n \div 100) + 1] \o Digit[((n \div 10) % 10) + 1] \o Digit[(n % 10) + 1]

----------------------------------------------------------------------------
(* validate_email(email): the library's verdict on the values of the model. *)
(* A valid address comes back normalised (domain lower-cased).              *)

ValidateEmail(email) ==
    IF email.t # "str"
      THEN [ok |-> FALSE, exc |-> Exc("TypeError", "expected str"), email |-> "", domain |-> ""]
    ELSE IF email.v = "User@Example.COM"
      THEN [ok |-> TRUE, exc |-> Exc("", ""), email |-> "User@example.com", domain |-> "example.com"]
    ELSE [ok |-> FALSE,
          exc |-> Exc("EmailNotValidError", "An email address must have an @-sign."),
          email |-> "", domain |-> ""]

----------------------------------------------------------------------------
(* What the environment can answer *)

\* dns.resolver.resolve(domain, 'MX'): an answer (its records in the order
\* returned) or an exception
DnsOutcomes ==
    { [ok |-> TRUE,  records |-> <<"mx1.example.com.", "mx2.example.com.">>, exc |-> Exc("", "")],
      [ok |-> FALSE, records |-> <<>>, exc |-> Exc("NXDOMAIN", "The DNS query name does not exist")],
      [ok |-> FALSE, records |-> <<>>, exc |-> Exc("LifetimeTimeout", "The resolution lifetime expired")] }

\* smtplib.SMTP(mx_record, timeout=10): connected, or an exception; sock says
\* whether a socket had been opened (and closed again by the library) by then
ConnectOutcomes ==
    { [ok |-> TRUE,  sock |-> TRUE,  exc |-> Exc("", "")],
      [ok |-> FALSE, sock |-> TRUE,  exc |-> Exc("SMTPConnectError", "(554, b'No SMTP service here')")],
      [ok |-> FALSE, sock |-> FALSE, exc |-> Exc("ConnectionRefusedError", "[Errno 111] Connection refused")],
      [ok |-> FALSE, sock |-> FALSE, exc |-> Exc("TimeoutError", "timed out")] }

\* how reading a command's reply can fail (smtplib.SMTP.getreply)
ReplyFailures ==
    { Exc("SMTPServerDisconnected", "Connection unexpectedly closed"),
      Exc("SMTPServerDisconnected", "Connection unexpectedly closed: timed out") }

\* the server text of a reply, as bytes: utf8 says whether it decodes
Bytes(text, utf8) == [text |-> text, utf8 |-> utf8]

\* replies to RCPT TO
RcptReplies ==
    { [code |-> 250, message |-> Bytes("2.1.5 Ok", TRUE)],
      [code |-> 550, message |-> Bytes("5.1.1 User unknown", TRUE)],
      [code |-> 550, message |-> Bytes("\\xff\\xfe", FALSE)] }

\* QUIT: the code of the reply, or lost when the reply cannot be read
QuitOutcomes ==
    { [lost |-> FALSE, code |-> 221],
      [lost |-> FALSE, code |-> 500],
      [lost |-> TRUE,  code |-> 0] }

NoReply == [code |-> 0, message |-> Bytes("", TRUE)]

----------------------------------------------------------------------------
(* verify_email *)

NoRet == [valid |-> FALSE, msg |-> Msg("", <<>>)]
\* what is travelling out of verify_email's outer try: nothing yet, a return
\* value, or an exception
NoPending == [kind |-> "none", valid |-> FALSE, msg |-> Msg("", <<>>), exc |-> Exc("", "")]
Return(valid, msg) == [kind |-> "return", valid |-> valid, msg |-> msg, exc |-> Exc("", "")]
Raise(e) == [kind |-> "raise", valid |-> FALSE, msg |-> Msg("", <<>>), exc |-> e]

\* the except clauses without the final except Exception
CatchSmtpOnly(e) ==
    IF e.cls = "SMTPConnectError"
      THEN [caught |-> TRUE, valid |-> FALSE, msg |-> Msg("SMTP connection error: ", <<e.text>>)]
    ELSE IF e.cls = "SMTPServerDisconnected"
      THEN [caught |-> TRUE, valid |-> FALSE, msg |-> Msg("SMTP server disconnected: ", <<e.text>>)]
    ELSE [caught |-> FALSE, valid |-> FALSE, msg |-> Msg("", <<>>)]

\* the except clauses with a final clause that drops the exception's text
CatchNoText(e) ==
    IF e.cls = "SMTPConnectError"
      THEN [caught |-> TRUE, valid |-> FALSE, msg |-> Msg("SMTP connection error: ", <<e.text>>)]
    ELSE IF e.cls = "SMTPServerDisconnected"
      THEN [caught |-> TRUE, valid |-> FALSE, msg |-> Msg("SMTP server disconnected: ", <<e.text>>)]
    ELSE [caught |-> TRUE, valid |-> FALSE, msg |-> Msg("Error during verification", <<>>)]

\* the except clauses of verify_email's outer try
Catch(e) ==
    IF e.cls = "SMTPConnectError"
      THEN [caught |-> TRUE, valid |-> FALSE, msg |-> Msg("SMTP connection error: ", <<e.text>>)]
    ELSE IF e.cls = "SMTPServerDisconnected"
      THEN [caught |-> TRUE, valid |-> FALSE, msg |-> Msg("SMTP server disconnected: ", <<e.text>>)]
    ELSE [caught |-> TRUE, valid |-> FALSE, msg |-> Msg("Error during verification: ", <<e.text>>)]

\* what leaves verify_email's outer try: a return value, or an exception the
\* except clauses may turn into one
Deliver(p) ==
    IF p.kind = "return"
      THEN [caught |-> TRUE, valid |-> p.valid, msg |-> p.msg]
      ELSE Catch(p.exc)

\* validate_email and the inner except EmailNotValidError
FormatCheck(email) ==
    LET v == ValidateEmail(email) IN
    IF v.ok THEN NoPending
    ELSE IF v.exc.cls = "EmailNotValidError"
      THEN Return(FALSE, Msg("Invalid email format: ", <<v.exc.text>>))
    ELSE Raise(v.exc)

\* get_mx_record's result for an answer of the resolver
MxResult(out) ==
    IF out.ok THEN [t |-> "str", v |-> out.records[1]] ELSE None

\* what get_mx_record logs
MxLogLine(domain, out) ==
    IF out.ok
      THEN [level |-> "INFO", kind |-> "mx", domain |-> domain, text |-> out.records[1]]
      ELSE [level |-> "ERROR", kind |-> "mx", domain |-> domain, text |-> out.exc.text]

\* the test for a missing MX host left out
MxMissingNever(mx) == FALSE

\* if not mx_record
MxMissing(mx) == mx = None \/ mx.v = ""

\* message.decode('utf-8')
Decode(b) == IF b.utf8 THEN [ok |-> TRUE, text |-> b.text]
             ELSE [ok |-> FALSE, text |-> "'utf-8' codec can't decode byte 0xff"]

\* the if/else on the RCPT TO reply
Decide(r) ==
    IF r.code = RCPT_OK
      THEN Return(TRUE, Msg("Email address is valid", <<>>))
    ELSE IF Decode(r.message).ok
      THEN Return(FALSE, Msg("Server response: ", <<DecimalStr(r.code), Decode(r.message).text>>))
    ELSE Raise(Exc("UnicodeDecodeError", Decode(r.message).text))

NewConn(item) == [item |-> item, open |-> TRUE, helo |-> 0, mail |-> 0, rcpt |-> 0, quit |-> 0]

\* smtplib.SMTP.close
CloseConn(c) == [c EXCEPT !.open = FALSE]

\* smtplib.SMTP.__exit__: QUIT, an exception for a reply other than 221, close.
\* On a socket the library already closed, QUIT raises SMTPServerDisconnected,
\* which __exit__ swallows.
ExitPending(c, p, q) ==
    IF c.open /\ ~q.lost /\ q.code # 221
      THEN Raise(Exc("SMTPResponseException", "(500, b'Error: bad syntax')"))
      ELSE p

\* leaving the block without closing the connection
ExitConnNoClose(c, q) == [c EXCEPT !.quit = IF c.open THEN @ + 1 ELSE @]

ExitConn(c, q) ==
    CloseConn([c EXCEPT !.quit = IF c.open THEN @ + 1 ELSE @])

----------------------------------------------------------------------------
(* process_email_list *)

total_emails == Len(email_list)
email == email_list[i]
conn == conns[Len(conns)]

ZeroCalls == [validate |-> 0, mx |-> 0, smtp |-> 0]

\* the tuple built from the normalised address instead of the item
ResultTupleNormalized(e, valid, msg) == <<[e EXCEPT !.v = ValidateEmail(e).email], valid, msg>>

\* the tuple appended to results
ResultTuple(e, valid, msg) == <<e, valid, msg>>

\* the line logged for a non-string item
WarningLine(e, msg) ==
    [level |-> "WARNING", kind |-> "item", email |-> e, valid |-> FALSE, msg |-> msg]

\* log_message
ProgressLine(idx, total, e, valid, msg) ==
    [kind |-> "progress", idx |-> idx, total |-> total, email |-> e, valid |-> valid, msg |-> msg]

\* logging.info(log_message)
LogInfo(l, line) == Append(l, [level |-> "INFO", kind |-> "progress", line |-> line])

\* the loop body without its print
ConsoleSilent(c, line) == c

\* the console after the loop body's output for a string item
ConsoleOut(c, line) == Append(c, line)

\* the delay taken after the last item too
SleepAfterEvery(idx, total) == idx <= total

\* if i < total_emails
NeedsSleep(idx, total) == idx < total

\* leave verify_email with what travels out of its outer try
Leave(p) ==
    LET d == Deliver(p) IN
    IF d.caught
      THEN /\ ret' = [valid |-> d.valid, msg |-> d.msg]
           /\ pc' = "record"
      ELSE /\ ret' = ret
           /\ pc' = "raised"

\* for ... enumerate(email_list, 1): a non-string item
NonStringItem ==
    /\ pc = "loop"
    /\ i < total_emails
    /\ ~IsStr(email_list[i + 1])
    /\ i' = i + 1
    /\ log' = Append(log, WarningLine(email_list[i + 1], Msg("Invalid email type", <<>>)))
    /\ results' = Append(results, ResultTuple(email_list[i + 1], FALSE, Msg("Invalid email type", <<>>)))
    /\ UNCHANGED <<email_list, pc, ret, normalized_email, mx_record, rcpt, pending,
                   conns, calls, console, sleeps, delay>>
    /\ UNCHANGED mainVars

\* a string item: verify_email is entered and validates the format
ValidateFormat ==
    /\ pc = "loop"
    /\ i < total_emails
    /\ IsStr(email_list[i + 1])
    /\ i' = i + 1
    /\ calls' = [calls EXCEPT ![i + 1].validate = @ + 1]
    /\ LET p == FormatCheck(email_list[i + 1]) IN
       IF p.kind = "none"
         THEN /\ normalized_email' = ValidateEmail(email_list[i + 1])
              /\ pc' = "mx"
              /\ ret' = NoRet
         ELSE /\ normalized_email' = normalized_email
              /\ Leave(p)
    /\ pending' = FormatCheck(email_list[i + 1])
    /\ mx_record' = None
    /\ rcpt' = NoReply
    /\ UNCHANGED <<email_list, results, conns, log, console, sleeps, delay>>
    /\ UNCHANGED mainVars

\* normalized_email.split('@'), get_mx_record(domain), if not mx_record
GetMxRecord ==
    /\ pc = "mx"
    /\ \E out \in DnsOutcomes :
         /\ calls' = [calls EXCEPT ![i].mx = @ + 1]
         /\ log' = Append(log, MxLogLine(normalized_email.domain, out))
         /\ mx_record' = MxResult(out)
         /\ IF MxMissing(MxResult(out))
              THEN /\ pending' = Return(FALSE, Msg("Domain MX record not found", <<>>))
                   /\ Leave(Return(FALSE, Msg("Domain MX record not found", <<>>)))
              ELSE /\ pending' = pending
                   /\ pc' = "connect"
                   /\ ret' = ret
    /\ UNCHANGED <<email_list, i, results, normalized_email, rcpt, conns,
                   console, sleeps, delay>>
    /\ UNCHANGED mainVars

\* with smtplib.SMTP(mx_record, timeout=10) as server
Connect ==
    /\ pc = "connect"
    /\ \E out \in ConnectOutcomes :
         /\ calls' = [calls EXCEPT ![i].smtp = @ + 1]
         /\ IF out.ok
              THEN /\ conns' = Append(conns, NewConn(i))
                   /\ pending' = pending
                   /\ pc' = "helo"
                   /\ ret' = ret
              ELSE /\ conns' = IF out.sock THEN Append(conns, CloseConn(NewConn(i))) ELSE conns
                   /\ pending' = Raise(out.exc)
                   /\ Leave(Raise(out.exc))
    /\ UNCHANGED <<email_list, i, results, normalized_email, mx_record, rcpt,
                   log, console, sleeps, delay>>
    /\ UNCHANGED mainVars

\* server.helo()
Helo ==
    /\ pc = "helo"
    /\ \/ /\ conns' = [conns EXCEPT ![Len(conns)].helo = @ + 1]
          /\ pending' = pending
          /\ pc' = "mail"
       \/ \E e \in ReplyFailures :
          /\ conns' = [conns EXCEPT ![Len(conns)] = CloseConn([@ EXCEPT !.helo = @ + 1])]
          /\ pending' = Raise(e)
          /\ pc' = "exit"
    /\ UNCHANGED <<email_list, i, results, ret, normalized_email, mx_record, rcpt,
                   calls, log, console, sleeps, delay>>
    /\ UNCHANGED mainVars

\* server.mail(self.sender_email)
Mail ==
    /\ pc = "mail"
    /\ \/ /\ conns' = [conns EXCEPT ![Len(conns)].mail = @ + 1]
          /\ pending' = pending
          /\ pc' = "rcpt"
       \/ \E e \in ReplyFailures :
          /\ conns' = [conns EXCEPT ![Len(conns)] = CloseConn([@ EXCEPT !.mail = @ + 1])]
          /\ pending' = Raise(e)
          /\ pc' = "exit"
    /\ UNCHANGED <<email_list, i, results, ret, normalized_email, mx_record, rcpt,
                   calls, log, console, sleeps, delay>>
    /\ UNCHANGED mainVars

\* code, message = server.rcpt(normalized_email) and the if/else on code
Rcpt ==
    /\ pc = "rcpt"
    /\ \/ \E r \in RcptReplies :
          /\ conns' = [conns EXCEPT ![Len(conns)].rcpt = @ + 1]
          /\ rcpt' = r
          /\ pending' = Decide(r)
       \/ \E e \in ReplyFailures :
          /\ conns' = [conns EXCEPT ![Len(conns)] = CloseConn([@ EXCEPT !.rcpt = @ + 1])]
          /\ rcpt' = rcpt
          /\ pending' = Raise(e)
    /\ pc' = "exit"
    /\ UNCHANGED <<email_list, i, results, ret, normalized_email, mx_record,
                   calls, log, console, sleeps, delay>>
    /\ UNCHANGED mainVars

\* the with block is left: SMTP.__exit__, then the return or the except clauses
ExitWith ==
    /\ pc = "exit"
    /\ \E q \in QuitOutcomes :
         /\ conns' = [conns EXCEPT ![Len(conns)] = ExitConn(@, q)]
         /\ pending' = ExitPending(conn, pending, q)
         /\ Leave(ExitPending(conn, pending, q))
    /\ UNCHANGED <<email_list, i, results, normalized_email, mx_record, rcpt,
                   calls, log, console, sleeps, delay>>
    /\ UNCHANGED mainVars

\* results.append, logging.info, print, and the test for the delay
RecordResult ==
    /\ pc = "record"
    /\ results' = Append(results, ResultTuple(email, ret.valid, ret.msg))
    /\ log' = LogInfo(log, ProgressLine(i, total_emails, email, ret.valid, ret.msg))
    /\ console' = ConsoleOut(console, ProgressLine(i, total_emails, email, ret.valid, ret.msg))
    /\ pc' = IF NeedsSleep(i, total_emails) THEN "sleep" ELSE "loop"
    /\ UNCHANGED <<email_list, i, ret, normalized_email, mx_record, rcpt, pending,
                   conns, calls, sleeps, delay>>
    /\ UNCHANGED mainVars

\* delay = random.uniform(min_delay, max_delay); time.sleep(delay) begins
Sleep ==
    /\ pc = "sleep"
    /\ \E d \in min_delay..max_delay : delay' = d
    /\ sleeps' = [sleeps EXCEPT ![i] = @ + 1]
    /\ pc' = "sleeping"
    /\ UNCHANGED <<email_list, i, results, ret, normalized_email, mx_record, rcpt,
                   pending, conns, calls, log, console>>
    /\ UNCHANGED mainVars

\* time.sleep returns
Wake ==
    /\ pc = "sleeping"
    /\ delay' = 0
    /\ pc' = "loop"
    /\ UNCHANGED <<email_list, i, results, ret, normalized_email, mx_record, rcpt,
                   pending, conns, calls, log, console, sleeps>>
    /\ UNCHANGED mainVars

\* return results
ReturnResults ==
    /\ pc = "loop"
    /\ i = total_emails
    /\ pc' = "done"
    /\ UNCHANGED <<email_list, i, results, ret, normalized_email, mx_record, rcpt,
                   pending, conns, calls, log, console, sleeps, delay>>
    /\ UNCHANGED mainVars

\* the state process_email_list starts in for an argument list
ProcStart(list) ==
    /\ email_list = list
    /\ i = 0
    /\ results = <<>>
    /\ ret = NoRet
    /\ normalized_email = ValidateEmail(None)
    /\ mx_record = None
    /\ rcpt = NoReply
    /\ pending = NoPending
    /\ conns = <<>>
    /\ calls = [k \in 1..Len(list) |-> ZeroCalls]
    /\ sleeps = [k \in 1..Len(list) |-> 0]
    /\ delay = 0

Init ==
    /\ \E list \in SeqsUpTo(Items, MaxLen) : ProcStart(list)
    /\ pc = "loop"
    /\ log = <<>>
    /\ console = <<>>
    /\ mpc = "none"
    /\ df = <<>>
    /\ df_cols = <<>>
    /\ emails = <<>>
    /\ output_file = "absent"

Next ==
    \/ NonStringItem
    \/ ValidateFormat
    \/ GetMxRecord
    \/ Connect
    \/ Helo
    \/ Mail
    \/ Rcpt
    \/ ExitWith
    \/ RecordResult
    \/ Sleep
    \/ Wake
    \/ ReturnResults

Spec == Init /\ [][Next]_vars

----------------------------------------------------------------------------
(* ExcelHandler and main *)

RECURSIVE DropNa(_)
\* Series.dropna(): the cells that are not missing, in order
DropNa(col) ==
    IF col = <<>> THEN <<>>
    ELSE IF Head(col).t = "nan" THEN DropNa(Tail(col))
    ELSE <<Head(col)>> \o DropNa(Tail(col))

\* Series.astype(str): every cell becomes the str of its value
AsTypeStr(col) == [k \in 1..Len(col) |-> [t |-> "str", v |-> col[k].v]]

\* what pd.read_excel and the column test can come to
ReadOutcomes == {"ok", "FileNotFoundError", "no column"}

\* read_emails_from_excel's return value
ReadEmails(table, out) ==
    IF out = "ok"
      THEN [emails |-> AsTypeStr(DropNa(table)), df |-> TRUE]
      ELSE [emails |-> <<>>, df |-> FALSE]

\* if not emails or df is None
NothingToProcess(r) == r.emails = <<>> \/ ~r.df

\* df[name] = values: pandas raises ValueError unless there is one value per row
ColumnFits(table, values) == Len(values) = Len(table)

\* main up to the call of process_email_list
MainRead ==
    /\ mpc = "read"
    /\ \E out \in ReadOutcomes :
         LET r == ReadEmails(df, out) IN
         /\ emails' = r.emails
         /\ log' = Append(log, [level |-> IF out = "ok" THEN "INFO" ELSE "ERROR",
                                kind |-> "read", text |-> out])
         /\ IF NothingToProcess(r)
              THEN /\ mpc' = "aborted"
                   /\ UNCHANGED <<email_list, calls, sleeps, pc>>
              ELSE /\ mpc' = "process"
                   /\ email_list' = r.emails
                   /\ calls' = [k \in 1..Len(r.emails) |-> ZeroCalls]
                   /\ sleeps' = [k \in 1..Len(r.emails) |-> 0]
                   /\ pc' = "loop"
    /\ UNCHANGED <<i, results, ret, normalized_email, mx_record, rcpt, pending,
                   conns, console, delay, df, df_cols, output_file>>

\* df['Is_Valid'] = validation_status; df['Validation_Message'] = validation_messages
MainAssign ==
    /\ mpc = "process"
    /\ pc = "done"
    /\ LET validation_status   == [k \in 1..Len(results) |-> results[k][2]]
           validation_messages == [k \in 1..Len(results) |-> results[k][3]]
       IN IF ColumnFits(df, validation_status) /\ ColumnFits(df, validation_messages)
            THEN /\ df_cols' = [k \in 1..Len(df) |->
                                  [Is_Valid |-> validation_status[k],
                                   Validation_Message |-> validation_messages[k]]]
                 /\ mpc' = "write"
            ELSE /\ df_cols' = df_cols
                 /\ mpc' = "raised"
    /\ UNCHANGED procVars
    /\ UNCHANGED <<df, emails, output_file>>

\* write_results_to_excel and the summary
MainWrite ==
    /\ mpc = "write"
    /\ \E ok \in BOOLEAN :
         /\ output_file' = IF ok THEN "written" ELSE "absent"
         /\ log' = Append(log, [level |-> IF ok THEN "INFO" ELSE "ERROR",
                                kind |-> "write", text |-> "verified_emails.xlsx"])
    /\ mpc' = "done"
    /\ UNCHANGED <<email_list, i, pc, results, ret, normalized_email, mx_record, rcpt,
                   pending, conns, calls, console, sleeps, delay>>
    /\ UNCHANGED <<df, df_cols, emails>>

InitMain ==
    /\ ProcStart(<<>>)
    /\ pc = "idle"
    /\ log = <<>>
    /\ console = <<>>
    /\ mpc = "read"
    /\ df \in SeqsUpTo(Cells, MaxRows)
    /\ df_cols = <<>>
    /\ emails = <<>>
    /\ output_file = "absent"

\* main never hands a non-string to process_email_list (astype(str))
NextMain ==
    \/ MainRead
    \/ MainAssign
    \/ MainWrite
    \/ ValidateFormat
    \/ GetMxRecord
    \/ Connect
    \/ Helo
    \/ Mail
    \/ Rcpt
    \/ ExitWith
    \/ RecordResult
    \/ Sleep
    \/ Wake
    \/ ReturnResults

MainSpec == InitMain /\ [][NextMain]_vars

----------------------------------------------------------------------------
(* Properties *)

InVerify == pc \in {"mx", "connect", "helo", "mail", "rcpt", "exit"}

\* item k of the list is a str
StringItem(k) == email_list[k].t = "str"

\* verify_email has returned for item i and item i + 1 has not begun
Returned ==
    /\ pc \in {"record", "sleep", "sleeping", "loop", "done"}
    /\ i >= 1
    /\ StringItem(i)

\* the items whose loop body has appended its result
Recorded == IF InVerify \/ pc \in {"record", "raised"} THEN i - 1 ELSE i

\* C1: process_email_list returns one result tuple per input item, the k-th
\* carrying the k-th item unchanged; all along the loop the result list holds
\* exactly the results of the items handled so far, and a step only ever appends
\* to it.
C1_OneResultPerItem ==
    /\ [](/\ Len(results) = Recorded
          /\ \A k \in 1..Len(results) : results[k][1] = email_list[k]
          /\ pc = "done" => Len(results) = Len(email_list))
    /\ [][/\ Len(results') >= Len(results)
          /\ Len(results') <= Len(results) + 1
          /\ SubSeq(results', 1, Len(results)) = results]_vars

C1_Witness ==
    /\ pc = "done"
    /\ Len(email_list) = 3
    /\ email_list[1] = MalformedAddr
    /\ email_list[2] = IntItem
    /\ email_list[3] = MixedCaseAddr
    /\ Len(results) = 3
    /\ results[3][2] = TRUE

\* C2: verify_email runs format validation, then the MX lookup, then the SMTP
\* connection, each at most once and none before the one it follows; an address
\* that fails format validation gets is_valid = FALSE with the invalid-format
\* message and no MX lookup or SMTP connection; an address whose MX lookup
\* gives no host gets is_valid = FALSE with "Domain MX record not found" and
\* no SMTP connection.
C2_StagesShortCircuit ==
    /\ \A k \in 1..Len(email_list) :
         /\ calls[k].validate <= 1 /\ calls[k].mx <= 1 /\ calls[k].smtp <= 1
         /\ calls[k].smtp <= calls[k].mx
         /\ calls[k].mx <= calls[k].validate
         /\ (k <= Len(results) /\ StringItem(k) /\ ~ValidateEmail(email_list[k]).ok)
               => /\ results[k][2] = FALSE
                  /\ results[k][3].prefix = "Invalid email format: "
                  /\ calls[k].validate = 1
                  /\ calls[k].mx = 0
                  /\ calls[k].smtp = 0
    /\ (Returned /\ calls[i].mx = 1 /\ mx_record = None)
          => /\ ret = [valid |-> FALSE, msg |-> Msg("Domain MX record not found", <<>>)]
             /\ calls[i].smtp = 0
    /\ \A c \in 1..Len(conns) : calls[conns[c].item].mx = 1

C2_Witness ==
    /\ pc = "done"
    /\ Len(email_list) = 2
    /\ email_list[1] = MalformedAddr
    /\ email_list[2] = MixedCaseAddr
    /\ calls[2].mx = 1
    /\ mx_record = None
    /\ results[2][3].prefix = "Domain MX record not found"

\* C3: once RCPT TO was answered for an address, code 250 gives
\* (TRUE, "Email address is valid"), any other code gives is_valid = FALSE with
\* a message holding the code and the server text, and is_valid = TRUE is
\* returned only after a 250.
C3_DecisionRule ==
    /\ (Returned /\ rcpt # NoReply) =>
          IF rcpt.code = RCPT_OK
            THEN ret = [valid |-> TRUE, msg |-> Msg("Email address is valid", <<>>)]
            ELSE /\ ret.valid = FALSE
                 /\ ret.msg.parts = <<DecimalStr(rcpt.code), rcpt.message.text>>
    /\ (Returned /\ ret.valid) => rcpt.code = RCPT_OK

\* C4: a non-string item is recorded as (item, FALSE, "Invalid email type") in
\* the very step that reaches it, with no format validation, MX lookup or SMTP
\* connection made for it and no sleep after it.
C4_NonStringSkipped ==
    \A k \in 1..Len(email_list) :
       ~StringItem(k) =>
          /\ calls[k] = ZeroCalls
          /\ sleeps[k] = 0
          /\ \A c \in 1..Len(conns) : conns[c].item # k
          /\ k <= i => /\ Len(results) >= k
                       /\ results[k] = <<email_list[k], FALSE, Msg("Invalid email type", <<>>)>>

C4_Witness ==
    /\ pc = "done"
    /\ Len(email_list) = 3
    /\ email_list[1] = MixedCaseAddr
    /\ email_list[2] = IntItem
    /\ email_list[3] = MixedCaseAddr
    /\ results[2] = <<IntItem, FALSE, Msg("Invalid email type", <<>>)>>
    /\ results[3][2] = TRUE

\* C5: no exception leaves verify_email: an exception of any stage becomes a
\* (FALSE, message) pair, and process_email_list can always take its next step
\* until it returns.
C5_NoFailureEscapes ==
    /\ pc # "raised"
    /\ (Returned /\ pending.kind = "raise") => (ret.valid = FALSE /\ ret.msg.prefix # "")
    /\ pc = "done" \/ ENABLED Next

C5_Witness ==
    /\ pc = "done"
    /\ Len(email_list) = 2
    /\ results[1][3] = Msg("Error during verification: ", <<"'utf-8' codec can't decode byte 0xff">>)
    /\ results[2][3].prefix = "Error during verification: "
    /\ pending.kind = "raise"
    /\ pending.exc.cls = "SMTPResponseException"

OpenConns == {c \in 1..Len(conns) : conns[c].open}

\* C6: at most one SMTP connection is open at any time, and only while
\* verify_email is between connecting and leaving the with block for the
\* address it was opened for; none is open when a result is recorded, when the
\* next item begins or when process_email_list returns; a connection serves one
\* item and carries HELO, MAIL FROM and RCPT TO at most once each, in that
\* order, and exactly once each when the with block is left by a return.
C6_ConnectionPerProbe ==
    /\ Cardinality(OpenConns) <= 1
    /\ \A c \in OpenConns : c = Len(conns) /\ conns[c].item = i
    /\ pc \notin {"helo", "mail", "rcpt", "exit"} => OpenConns = {}
    /\ \A c \in 1..Len(conns) :
         /\ conns[c].helo <= 1 /\ conns[c].mail <= conns[c].helo /\ conns[c].rcpt <= conns[c].mail
         /\ \A d \in 1..Len(conns) : conns[c].item = conns[d].item => c = d
    /\ (Returned /\ calls[i].smtp = 1 /\ pending.kind = "return")
          => (conn.item = i /\ conn.helo = 1 /\ conn.mail = 1 /\ conn.rcpt = 1)

C6_Witness ==
    /\ pc = "done"
    /\ Len(conns) = 3
    /\ conns[1].rcpt = 1 /\ conns[1].quit = 1
    /\ conns[2].helo = 1 /\ conns[2].mail = 0 /\ conns[2].quit = 0
    /\ conns[3].rcpt = 1 /\ results[3][2] = FALSE

\* C7: after a string item that is not the last of the list exactly one sleep
\* of a duration in [min_delay, max_delay] happens before the next item
\* begins; no sleep follows the last item (nor a non-string item).
C7_SleepBetweenProbes ==
    /\ \A k \in 1..Len(email_list) :
         /\ sleeps[k] <= 1
         /\ (k = Len(email_list) \/ ~StringItem(k)) => sleeps[k] = 0
         /\ (StringItem(k) /\ k < Len(email_list) /\ (k < i \/ (k = i /\ pc \in {"sleeping", "loop"})))
               => sleeps[k] = 1
         /\ sleeps[k] = 1 => k <= Len(results)
    /\ pc = "sleeping" => delay \in min_delay..max_delay

C7_Witness ==
    /\ pc = "done"
    /\ Len(email_list) = 3
    /\ \A k \in 1..3 : StringItem(k)
    /\ calls[1].smtp = 1 /\ calls[2].smtp = 1 /\ calls[3].smtp = 1
    /\ sleeps = <<1, 1, 0>>

\* the progress lines of item k in a sequence of lines
LinesOf(lines, k) ==
    {n \in 1..Len(lines) :
        lines[n] = ProgressLine(k, Len(email_list), email_list[k], results[k][2], results[k][3])}

LoggedLines == [n \in 1..Len(log) |-> IF log[n].kind = "progress" THEN log[n].line ELSE log[n]]

\* C8 as stated: every recorded item, string or not, has one progress line with
\* index/total, address, validity and message in the log and on the console.
C8_EveryItemProgressLine ==
    \A k \in 1..Len(results) :
       /\ Cardinality(LinesOf(LoggedLines, k)) = 1
       /\ Cardinality(LinesOf(console, k)) = 1

\* C8 amended: every recorded string item has exactly one progress line with
\* index/total, address, validity and message in the log and on the console
\* before the next item is handled; a recorded non-string item has one warning
\* record in the log with address, validity and message but no index/total,
\* and no console line.
C8_ProgressLines ==
    /\ \A k \in 1..Len(results) :
         IF StringItem(k)
           THEN /\ Cardinality(LinesOf(LoggedLines, k)) = 1
                /\ Cardinality(LinesOf(console, k)) = 1
           ELSE /\ LinesOf(LoggedLines, k) = {}
                /\ LinesOf(console, k) = {}
                /\ \E n \in 1..Len(log) : log[n] = WarningLine(email_list[k], results[k][3])
    /\ Len(console) = Cardinality({k \in 1..Len(results) : StringItem(k)})
    /\ \A n \in 1..Len(console) : console[n].idx <= Len(results)

C8_Witness ==
    /\ pc = "done"
    /\ Len(email_list) = 3
    /\ email_list[2] = IntItem
    /\ StringItem(1) /\ StringItem(3)
    /\ Len(console) = 2
    /\ console[2].idx = 3 /\ console[2].valid = TRUE

\* C9: a failure of the SMTP stage gives is_valid = FALSE and a message that
\* names the failure: SMTPConnectError gives "SMTP connection error: " and
\* SMTPServerDisconnected gives "SMTP server disconnected: ", each followed
\* by the exception's text; a timeout gives "Error during verification: "
\* followed by the exception's text "timed out".
C9_FailureClassNamed ==
    (Returned /\ calls[i].smtp = 1 /\ pending.kind = "raise") =>
       /\ ret.valid = FALSE
       /\ ret.msg.parts = <<pending.exc.text>>
       /\ pending.exc.cls = "SMTPConnectError" => ret.msg.prefix = "SMTP connection error: "
       /\ pending.exc.cls = "SMTPServerDisconnected" => ret.msg.prefix = "SMTP server disconnected: "
       /\ pending.exc.cls = "TimeoutError" =>
             ret.msg = Msg("Error during verification: ", <<"timed out">>)

C9_Witness ==
    /\ pc = "done"
    /\ Len(email_list) = 3
    /\ results[1][3].prefix = "SMTP connection error: "
    /\ results[2][3] = Msg("SMTP server disconnected: ", <<"Connection unexpectedly closed: timed out">>)
    /\ results[3][3] = Msg("Error during verification: ", <<"timed out">>)
    /\ pending.exc.cls = "TimeoutError"

\* C10: when the file is read, the column exists and some row has an address,
\* main does not end with an unhandled error, and on reaching the write every
\* row that has an address carries the result of that address.
C10_MainReachesWrite ==
    /\ mpc # "raised"
    /\ mpc \in {"write", "done"} =>
          /\ Len(df_cols) = Len(df)
          /\ \A r \in 1..Len(df) :
                df[r].t # "nan" =>
                   /\ results[r][1].v = df[r].v
                   /\ df_cols[r] = [Is_Valid |-> results[r][2], Validation_Message |-> results[r][3]]

====
